---- MODULE Spec2Model ----
(***************************************************************************)
(* Model of the NBA line-movement tracker in src/app.py: the normalizer    *)
(* (flatten_data, flatten_totals_data), the snapshot store on Google Drive *)
(* (get_snapshot_file_id, save_snapshot_to_drive, load_snapshot_from_drive)*)
(* and the Streamlit script with its three buttons and the comparison      *)
(* block.                                                                  *)
(*                                                                         *)
(* Representation of Python values:                                        *)
(*   - None is <<>>, a number n is <<n>> (lines are counted in half        *)
(*     points, so 24.5 is <<49>>);                                         *)
(*   - a str the code only compares or prints is a TLA+ string; a str the  *)
(*     code takes apart (player descriptions and the search query, which   *)
(*     go through lower() and `in`) is a sequence of one-character strings;*)
(*   - an f-string is the sequence of its parts;                           *)
(*   - a dict with fixed keys is a record, and a key the payload leaves    *)
(*     out is a field the record does not have;                            *)
(*   - a dict built in a loop is the sequence of its [key, value] entries  *)
(*     in insertion order.                                                 *)
(***************************************************************************)
EXTENDS Integers, Sequences, FiniteSets, TLC

VARIABLES
    game_data_list,   \* normalizer: the payload handed to flatten_*
    flattened,        \* normalizer: what the last flatten_* call returned
    drive,            \* the files of the Drive folder DRIVE_FOLDER_ID
    now,              \* the clock, in seconds
    snapshot_cache,   \* st.cache_data of load_snapshot_from_drive
    loaded,           \* what the last load_snapshot_from_drive call returned
    saved,            \* the save_snapshot_to_drive calls since that load
    api,              \* the upstream odds provider: what its endpoints answer
    games_cache,      \* st.cache_data of get_active_games_cached
    props_cache,      \* st.cache_data of fetch_props_for_games_cached
    totals_cache,     \* st.cache_data of fetch_totals_for_games_cached
    scan_active,      \* st.session_state['scan_active']
    screen            \* what the last script run displayed

norm_vars == <<game_data_list, flattened>>

store_vars == <<drive, now, snapshot_cache, loaded, saved>>

app_vars == <<api, games_cache, props_cache, totals_cache, scan_active, screen>>

vars == <<norm_vars, store_vars, app_vars>>

(***************************************************************************)
(* Configuration (src/app.py lines 27-38).                                 *)
(***************************************************************************)
SNAPSHOT_FILENAME == "nba_odds_snapshot.json"

TARGET_BOOKMAKER_KEY == "draftkings"

MARKET_ORDER ==
    << "player_points", "player_rebounds", "player_assists",
       "player_points_rebounds_assists", "player_points_rebounds",
       "player_points_assists", "player_rebounds_assists" >>

TOTALS_MARKET == "totals"

(***************************************************************************)
(* Python values.                                                          *)
(***************************************************************************)
None == <<>>

Num(n) == <<n>>

\* dict.get(key, default)
Get(d, key, default) == IF key \in DOMAIN d THEN d[key] ELSE default

Abs(n) == IF n < 0 THEN -n ELSE n

\* The characters of the model's strings, in code point order.
Chars ==
    << " ", "A", "B", "L", "O", "a", "b", "l", "o", "|" >>

ord(c) == CHOOSE i \in DOMAIN Chars : Chars[i] = c

\* str.lower(), one character
lower_char(c) ==
    CASE c = "A" -> "a"
      [] c = "B" -> "b"
      [] c = "L" -> "l"
      [] c = "O" -> "o"
      [] OTHER -> c

\* str.lower()
lower(s) == [i \in DOMAIN s |-> lower_char(s[i])]

\* `sub in s` for two str
Contains(sub, s) ==
    \E k \in 0..(Len(s) - Len(sub)) :
        \A i \in 1..Len(sub) : s[k + i] = sub[i]

\* s1 < s2 for two str: lexicographic by code point
StrLess(s1, s2) ==
    \E k \in 1..(Len(s1) + 1) :
        /\ k <= Len(s2)
        /\ \A i \in 1..(k - 1) : s1[i] = s2[i]
        /\ \/ k = Len(s1) + 1
           \/ ord(s1[k]) < ord(s2[k])

(***************************************************************************)
(* The normalizer: flatten_data and flatten_totals_data.                   *)
(* Both walk game -> bookmaker -> market -> outcome and append one record  *)
(* per outcome named 'Over'. A subscript on a key the payload leaves out   *)
(* raises KeyError, which ends the call (and the script run).              *)
(***************************************************************************)
\* f"{away_team} @ {home_team}"
MatchupOf(away_team, home_team) == <<away_team, " @ ", home_team>>

\* a normalizer that skips no bookmaker
BookProcessedAlways(book) == book.key = book.key

\* `if book['key'] != TARGET_BOOKMAKER_KEY: continue`
BookProcessed(book) == book.key = TARGET_BOOKMAKER_KEY

\* flatten_totals_data: `if market['key'] != 'totals': continue`;
\* flatten_data has no test on the market key.
MarketProcessed(totals_mode, market) == totals_mode => market.key = "totals"

\* (mutant of EmitsRecord: the 'Under' side gets a record of its own)
EmitsRecordPerSide(outcome) == outcome.name \in {"Over", "Under"}

\* `if outcome['name'] == 'Over':`
EmitsRecord(outcome) == outcome.name = "Over"

\* next((o for o in market['outcomes'] if o['name'] == 'Under'), None)
under_outcome(market) ==
    LET unders == {i \in DOMAIN market.outcomes : market.outcomes[i].name = "Under"}
    IN  IF unders = {} THEN None
        ELSE market.outcomes[CHOOSE i \in unders : \A j \in unders : i <= j]

\* under_outcome['price'] if under_outcome else '-'
under_price(market) ==
    IF under_outcome(market) # None THEN under_outcome(market).price ELSE "-"

\* the keys the record literal subscripts on the outcome
RecordKeys(totals_mode) ==
    IF totals_mode THEN {"point"} ELSE {"description", "point"}

\* the dict appended to flat_list
FlatRecord(totals_mode, game, book, market, outcome) ==
    LET home_team == Get(game, "home_team", "Unknown")
        away_team == Get(game, "away_team", "Unknown")
    IN  IF totals_mode
        THEN [ matchup    |-> MatchupOf(away_team, home_team),
               market_key |-> "totals",
               line       |-> outcome.point,
               over       |-> outcome.price,
               under      |-> under_price(market),
               book       |-> book.title,
               home_team  |-> home_team,
               away_team  |-> away_team ]
        ELSE [ player     |-> outcome.description,
               market_key |-> market.key,
               line       |-> outcome.point,
               over       |-> outcome.price,
               under      |-> under_price(market),
               book       |-> book.title,
               home_team  |-> home_team,
               away_team  |-> away_team,
               matchup    |-> MatchupOf(away_team, home_team) ]

\* `for outcome in market.get('outcomes', [])`, from the i-th outcome on
RECURSIVE FlattenOutcomes(_, _, _, _, _, _)
FlattenOutcomes(totals_mode, game, book, market, i, acc) ==
    LET outcomes == Get(market, "outcomes", <<>>)
    IN  IF acc.raised # "" \/ i > Len(outcomes) THEN acc
        ELSE IF ~EmitsRecord(outcomes[i])
        THEN FlattenOutcomes(totals_mode, game, book, market, i + 1, acc)
        ELSE IF ~(RecordKeys(totals_mode) \subseteq DOMAIN outcomes[i])
        THEN [acc EXCEPT !.raised = "KeyError"]
        ELSE FlattenOutcomes(totals_mode, game, book, market, i + 1,
                 [acc EXCEPT !.flat_list =
                     Append(@, FlatRecord(totals_mode, game, book, market, outcomes[i]))])

\* `for market in book.get('markets', [])`, from the i-th market on
RECURSIVE FlattenMarkets(_, _, _, _, _)
FlattenMarkets(totals_mode, game, book, i, acc) ==
    LET markets == Get(book, "markets", <<>>)
    IN  IF acc.raised # "" \/ i > Len(markets) THEN acc
        ELSE IF ~MarketProcessed(totals_mode, markets[i])
        THEN FlattenMarkets(totals_mode, game, book, i + 1, acc)
        ELSE FlattenMarkets(totals_mode, game, book, i + 1,
                 FlattenOutcomes(totals_mode, game, book, markets[i], 1, acc))

\* `for book in game.get('bookmakers', [])`, from the i-th bookmaker on
RECURSIVE FlattenBooks(_, _, _, _)
FlattenBooks(totals_mode, game, i, acc) ==
    LET bookmakers == Get(game, "bookmakers", <<>>)
    IN  IF acc.raised # "" \/ i > Len(bookmakers) THEN acc
        ELSE LET book == bookmakers[i]
                 seen == [acc EXCEPT !.found_bookies = @ \cup {book.key}]
             IN  IF ~BookProcessed(book)
                 THEN FlattenBooks(totals_mode, game, i + 1, seen)
                 ELSE FlattenBooks(totals_mode, game, i + 1,
                          FlattenMarkets(totals_mode, game, book, 1, seen))

\* `for game in game_data_list`, from the i-th game on
RECURSIVE FlattenGames(_, _, _, _)
FlattenGames(totals_mode, games, i, acc) ==
    IF acc.raised # "" \/ i > Len(games) THEN acc
    ELSE FlattenGames(totals_mode, games, i + 1,
             FlattenBooks(totals_mode, games[i], 1, acc))

NoRecords == [flat_list |-> <<>>, found_bookies |-> {}, raised |-> ""]

flatten_data(games) == FlattenGames(FALSE, games, 1, NoRecords)

flatten_totals_data(games) == FlattenGames(TRUE, games, 1, NoRecords)

(***************************************************************************)
(* JSON text. json.dumps writes a token sequence and json.load parses it   *)
(* back; one event (a RawEvent dict, which the store never looks into) is  *)
(* one token. A parse returns the value with the kind of JSON document it  *)
(* was, which is what isinstance(content, list) asks for.                  *)
(***************************************************************************)
Tok(t, v) == [t |-> t, v |-> v]

\* the keys of a dict the model serialises, in the order it writes them
KeyOrder == <<"last_updated", "games", "data", "props", "totals">>

\* json.dumps of a list of events
DumpsList(events) ==
    <<Tok("[", "")>> \o [i \in DOMAIN events |-> Tok("event", events[i])] \o <<Tok("]", "")>>

\* json.dumps of a str, or of None
DumpsStr(s) == IF s = None THEN <<Tok("null", "")>> ELSE <<Tok("str", s[1])>>

\* json.dumps of a dict whose values are lists of events
RECURSIVE DumpsMembers(_, _)
DumpsMembers(d, i) ==
    IF i > Len(KeyOrder) THEN <<>>
    ELSE IF KeyOrder[i] \in DOMAIN d
    THEN <<Tok("key", KeyOrder[i])>> \o DumpsList(d[KeyOrder[i]]) \o DumpsMembers(d, i + 1)
    ELSE DumpsMembers(d, i + 1)

\* (mutant of DumpsData: the props member is not written)
DumpsDataWithoutProps(data) ==
    <<Tok("{", ""), Tok("key", "totals")>> \o DumpsList(Get(data, "totals", <<>>))
        \o <<Tok("}", "")>>

DumpsData(data) == <<Tok("{", "")>> \o DumpsMembers(data, 1) \o <<Tok("}", "")>>

\* json.dumps({"last_updated": timestamp, "data": data})
json_dumps(payload) ==
    <<Tok("{", ""), Tok("key", "last_updated")>> \o DumpsStr(payload.last_updated)
        \o <<Tok("key", "data")>> \o DumpsData(payload.data) \o <<Tok("}", "")>>

ParseError == [ok |-> FALSE, kind |-> "", value |-> None, next |-> 0]

\* the parser of json.load: the value that starts at token i
RECURSIVE ParseValue(_, _), ParseItems(_, _, _), ParseMembers(_, _, _)
RECURSIVE ParseItem(_, _, _), ParseMember(_, _, _, _)
ParseValue(toks, i) ==
    IF i > Len(toks) THEN ParseError
    ELSE CASE toks[i].t = "str"   -> [ok |-> TRUE, kind |-> "str", value |-> <<toks[i].v>>, next |-> i + 1]
           [] toks[i].t = "null"  -> [ok |-> TRUE, kind |-> "null", value |-> None, next |-> i + 1]
           [] toks[i].t = "event" -> [ok |-> TRUE, kind |-> "dict", value |-> toks[i].v, next |-> i + 1]
           [] toks[i].t = "["     -> ParseItems(toks, i + 1, <<>>)
           [] toks[i].t = "{"     -> ParseMembers(toks, i + 1, <<>>)
           [] OTHER               -> ParseError

\* the items of a list from token i on
ParseItems(toks, i, items) ==
    IF i > Len(toks) THEN ParseError
    ELSE IF toks[i].t = "]"
    THEN [ok |-> TRUE, kind |-> "list", value |-> items, next |-> i + 1]
    ELSE ParseItem(toks, ParseValue(toks, i), items)

\* the list goes on after the item just parsed
ParseItem(toks, item, items) ==
    IF ~item.ok THEN ParseError
    ELSE ParseItems(toks, item.next, Append(items, item.value))

\* the members of a dict from token i on
ParseMembers(toks, i, members) ==
    IF i > Len(toks) THEN ParseError
    ELSE IF toks[i].t = "}"
    THEN [ok |-> TRUE, kind |-> "dict", value |-> members, next |-> i + 1]
    ELSE IF toks[i].t # "key" THEN ParseError
    ELSE ParseMember(toks, toks[i].v, ParseValue(toks, i + 1), members)

\* the dict goes on after the member just parsed
ParseMember(toks, key, member, members) ==
    IF ~member.ok THEN ParseError
    ELSE ParseMembers(toks, member.next, (key :> member.value) @@ members)

\* the whole text has to be one document
WholeDocument(text, doc) ==
    IF doc.ok /\ doc.next = Len(text) + 1 THEN doc ELSE ParseError

\* json.load(fh): the document, or ok = FALSE for a JSONDecodeError
json_load(text) == WholeDocument(text, ParseValue(text, 1))

(***************************************************************************)
(* The snapshot store. The Drive folder is the sequence of its files in    *)
(* order of creation; a file's id is its place in it.                      *)
(***************************************************************************)
File(name, trashed, modifiedTime, content) ==
    [name |-> name, trashed |-> trashed, modifiedTime |-> modifiedTime, content |-> content]

\* the files the query of get_snapshot_file_id selects
SnapshotFileIds(folder) ==
    {id \in DOMAIN folder : folder[id].name = SNAPSHOT_FILENAME /\ ~folder[id].trashed}

\* get_snapshot_file_id: the ids that can come first under
\* orderBy='modifiedTime desc' (Drive leaves the order of a tie open); with
\* no file the function returns None
NewestFileIds(folder) ==
    {id \in SnapshotFileIds(folder) :
        \A other \in SnapshotFileIds(folder) :
            folder[other].modifiedTime <= folder[id].modifiedTime}

\* what get_snapshot_file_id returns: None, or the id of a newest file
FoundFileIds(folder) ==
    IF SnapshotFileIds(folder) = {} THEN {None}
    ELSE {<<id>> : id \in NewestFileIds(folder)}

\* datetime.now().strftime("%Y-%m-%d %H:%M:%S UTC")
Timestamp(time) == <<ToString(time)>>

\* (mutant of SaveUpdates: the save never looks for the existing file)
SaveNeverUpdates(file_id) == FALSE

\* `if file_id:` in save_snapshot_to_drive
SaveUpdates(file_id) == file_id # None

\* save_snapshot_to_drive(data) at `time`, file_id being what
\* get_snapshot_file_id returned: the folder afterwards and the message
save_snapshot_to_drive(folder, data, time, file_id) ==
    LET payload      == [last_updated |-> Timestamp(time), data |-> data]
        file_content == json_dumps(payload)
    IN  IF SaveUpdates(file_id)
        THEN [folder |-> [folder EXCEPT ![file_id[1]].content = file_content,
                                        ![file_id[1]].modifiedTime = time],
              msg    |-> <<"Updated snapshot", Timestamp(time)>>]
        ELSE [folder |-> Append(folder, File(SNAPSHOT_FILENAME, FALSE, time, file_content)),
              msg    |-> <<"Created new snapshot", Timestamp(time)>>]

\* the branches of load_snapshot_from_drive on the parsed content
MigrateContent(content) ==
    IF content.kind = "list"
    THEN [ts |-> <<"No Data">>, data |-> [props |-> content.value, totals |-> <<>>]]
    ELSE IF content.kind = "dict" /\ "games" \in DOMAIN content.value
    THEN [ts   |-> Get(content.value, "last_updated", None),
          data |-> [props |-> content.value.games, totals |-> <<>>]]
    ELSE IF content.kind = "dict" /\ "data" \in DOMAIN content.value
    THEN [ts   |-> Get(content.value, "last_updated", None),
          data |-> Get(content.value, "data", None)]
    ELSE [ts |-> None, data |-> None]

\* the body of load_snapshot_from_drive on what json.load returned; any
\* exception gives (None, None)
LoadContent(content) ==
    IF ~content.ok \/ content.kind \notin {"list", "dict"}
    THEN [ts |-> None, data |-> None]
    ELSE MigrateContent(content)

\* load_snapshot_from_drive (the function under the cache), file_id being
\* what get_snapshot_file_id returned
load_snapshot_from_drive(folder, file_id) ==
    IF file_id = None THEN [ts |-> None, data |-> None]
    ELSE LoadContent(json_load(folder[file_id[1]].content))

(***************************************************************************)
(* st.cache_data: a cache maps the arguments of a call to the value it     *)
(* returned and the time of that call; an entry older than the ttl is not  *)
(* used.                                                                   *)
(***************************************************************************)
SNAPSHOT_TTL == 120

GAMES_TTL == 300

ODDS_TTL == 60

EmptyCache == <<>>

CacheHit(cache, key, ttl, time) ==
    /\ \E i \in DOMAIN cache : cache[i].key = key
    /\ LET entry == cache[CHOOSE i \in DOMAIN cache : cache[i].key = key]
       IN  time - entry.at < ttl

CachedValue(cache, key) ==
    cache[CHOOSE i \in DOMAIN cache : cache[i].key = key].value

CacheStore(cache, key, value, time) ==
    SelectSeq(cache, LAMBDA e : e.key # key) \o <<[key |-> key, value |-> value, at |-> time]>>

(***************************************************************************)
(* The upstream odds provider and the cached fetchers. A world w is the    *)
(* part of the state a script run reads and writes: the Drive folder, the  *)
(* four caches and the session state. A cached call returns its value and  *)
(* the world after it.                                                     *)
(***************************************************************************)
\* a call of a function under st.cache_data: value is what the function
\* returns if it runs
Cached(cache, key, ttl, time, value) ==
    IF CacheHit(cache, key, ttl, time)
    THEN [value |-> CachedValue(cache, key), cache |-> cache]
    ELSE [value |-> value, cache |-> CacheStore(cache, key, value, time)]

\* get_active_games_cached(): response.json(), or [] when the request fails
GamesCall(w, call) == [value |-> call.value, w |-> [w EXCEPT !.games_cache = call.cache]]

get_active_games_cached(w, provider, time) ==
    GamesCall(w, Cached(w.games_cache, <<>>, GAMES_TTL, time, provider.games))

SECONDS_PER_HOUR == 3600

\* filter_upcoming_games: a game whose commence_time does not parse is kept
filter_upcoming_games(games, hours_ahead, time) ==
    SelectSeq(games, LAMBDA game :
        \/ game.commence_time = None
        \/ /\ 0 <= game.commence_time[1] - time
           /\ game.commence_time[1] - time <= hours_ahead * SECONDS_PER_HOUR)

\* tuple(g['id'] for g in upcoming_games)
GameIds(games) == [i \in DOMAIN games |-> games[i].id]

\* the loop of fetch_props_for_games_cached / fetch_totals_for_games_cached
\* over get_props_for_game / get_totals_for_game: an answer that is None
\* (the request failed) is left out
FetchAll(answers, game_ids) ==
    LET all_data[i \in 0..Len(game_ids)] ==
            IF i = 0 THEN <<>>
            ELSE IF answers[game_ids[i]] # None
            THEN Append(all_data[i - 1], answers[game_ids[i]])
            ELSE all_data[i - 1]
    IN  all_data[Len(game_ids)]

PropsCall(w, call) == [value |-> call.value, w |-> [w EXCEPT !.props_cache = call.cache]]

fetch_props_for_games_cached(w, provider, game_ids, time) ==
    PropsCall(w, Cached(w.props_cache, game_ids, ODDS_TTL, time,
                        FetchAll(provider.props, game_ids)))

TotalsCall(w, call) == [value |-> call.value, w |-> [w EXCEPT !.totals_cache = call.cache]]

fetch_totals_for_games_cached(w, provider, game_ids, time) ==
    TotalsCall(w, Cached(w.totals_cache, game_ids, ODDS_TTL, time,
                         FetchAll(provider.totals, game_ids)))

SnapshotCall(w, call) ==
    [value |-> call.value, w |-> [w EXCEPT !.snapshot_cache = call.cache]]

\* the cached load_snapshot_from_drive()
load_snapshot_cached(w, time) ==
    SnapshotCall(w, Cached(w.snapshot_cache, <<>>, SNAPSHOT_TTL, time,
                           load_snapshot_from_drive(w.drive,
                               CHOOSE f \in FoundFileIds(w.drive) : TRUE)))

(***************************************************************************)
(* The comparison (lines 409-597): flatten both sides, key them, join,     *)
(* filter by mode and render. The result is what the run displays: the     *)
(* inline messages, the result rows in display order, and the exception    *)
(* that ended the run, if one did. (The scanner's diagnostics expander     *)
(* shows counts of the same two maps and is left out.)                     *)
(***************************************************************************)
SCANNER == "Market Scanner"

SEARCH == "Player Search"

TOTALS == "Game Totals"

\* f"{x['player']}|{x['market_key']}"
PropsKey(x) == x.player \o <<"|", x.market_key>>

\* x['matchup']
TotalsKey(x) == x.matchup

\* d[key] = value on a dict: a new key goes last, a known key keeps its place
DictPut(d, key, value) ==
    IF \E i \in DOMAIN d : d[i].key = key
    THEN [i \in DOMAIN d |-> IF d[i].key = key THEN [key |-> key, value |-> value] ELSE d[i]]
    ELSE Append(d, [key |-> key, value |-> value])

\* a dict comprehension over the (key, value) pairs in order
DictOf(pairs) ==
    LET d[i \in 0..Len(pairs)] ==
            IF i = 0 THEN <<>> ELSE DictPut(d[i - 1], pairs[i].key, pairs[i].value)
    IN  d[Len(pairs)]

\* {f"{x['player']}|{x['market_key']}": x for x in flat}
PropsMap(flat) == DictOf([i \in DOMAIN flat |-> [key |-> PropsKey(flat[i]), value |-> flat[i]]])

\* {x['matchup']: x for x in flat}
TotalsMap(flat) == DictOf([i \in DOMAIN flat |-> [key |-> TotalsKey(flat[i]), value |-> flat[i]]])

\* `key in d`
HasKey(d, key) == \E i \in DOMAIN d : d[i].key = key

\* d[key]
Lookup(d, key) == d[CHOOSE i \in DOMAIN d : d[i].key = key].value

\* {**item, "live_display": ..., "pre_display": ..., "diff": ..., "status": ...}
ResultRow(item, live_display, pre_display, diff, status) ==
    ("live_display" :> live_display) @@ ("pre_display" :> pre_display)
        @@ ("diff" :> diff) @@ ("status" :> status) @@ item

\* `if live_item['line'] is not None and pre_item['line'] is not None:`
LinesPresent(live_item, pre_item) == live_item.line # None /\ pre_item.line # None

\* live_item['line'] - pre_item['line']
LineDiff(live_item, pre_item) == live_item.line[1] - pre_item.line[1]

\* (mutant of PassesThreshold: a move of exactly the threshold is left out)
PassesThresholdStrictly(diff, threshold) == Abs(diff) > threshold

\* `if abs(diff) >= threshold:`
PassesThreshold(diff, threshold) == Abs(diff) >= threshold

\* one turn of the loop over live_map of the scanner and of the totals mode
ScanStep(results_list, key, live_item, pre_map, threshold) ==
    IF /\ HasKey(pre_map, key)
       /\ LinesPresent(live_item, Lookup(pre_map, key))
       /\ PassesThreshold(LineDiff(live_item, Lookup(pre_map, key)), threshold)
    THEN Append(results_list,
                ResultRow(live_item, live_item.line, Lookup(pre_map, key).line,
                          LineDiff(live_item, Lookup(pre_map, key)), "active"))
    ELSE results_list

ScanJoin(live_map, pre_map, threshold) ==
    LET results_list[i \in 0..Len(live_map)] ==
            IF i = 0 THEN <<>>
            ELSE ScanStep(results_list[i - 1], live_map[i].key, live_map[i].value,
                          pre_map, threshold)
    IN  results_list[Len(live_map)]

\* `if search_query.lower() in pre_item['player'].lower():`
QueryMatches(search_query, pre_item) == Contains(lower(search_query), lower(pre_item.player))

\* one turn of the loop over pre_map of the search mode; the subtraction
\* raises TypeError when a line is None
SearchStep(acc, key, pre_item, live_map, search_query) ==
    IF acc.raised # "" \/ ~QueryMatches(search_query, pre_item) THEN acc
    ELSE IF ~HasKey(live_map, key)
    THEN [acc EXCEPT !.found_match = TRUE,
                     !.results_list = Append(@, ResultRow(pre_item, "No Live Game",
                                                          pre_item.line, 0, "inactive"))]
    ELSE IF Lookup(live_map, key).line = None \/ pre_item.line = None
    THEN [acc EXCEPT !.found_match = TRUE, !.raised = "TypeError"]
    ELSE [acc EXCEPT !.found_match = TRUE,
                     !.results_list =
                         Append(@, ResultRow(Lookup(live_map, key),
                                             Lookup(live_map, key).line, pre_item.line,
                                             LineDiff(Lookup(live_map, key), pre_item),
                                             "active"))]

SearchJoin(pre_map, live_map, search_query) ==
    LET acc[i \in 0..Len(pre_map)] ==
            IF i = 0 THEN [results_list |-> <<>>, found_match |-> FALSE, raised |-> ""]
            ELSE SearchStep(acc[i - 1], pre_map[i].key, pre_map[i].value,
                            live_map, search_query)
    IN  acc[Len(pre_map)]

\* MARKET_ORDER.index(x['market_key']) if x['market_key'] in MARKET_ORDER else 99
MarketRank(market_key) ==
    IF \E i \in DOMAIN MARKET_ORDER : MARKET_ORDER[i] = market_key
    THEN (CHOOSE i \in DOMAIN MARKET_ORDER : MARKET_ORDER[i] = market_key) - 1
    ELSE 99

\* (mutant of PropsOrder: the props results sorted like the totals results)
PropsOrderByDiff(x, y) == Abs(x.diff) > Abs(y.diff)

\* the sort key of the props results: (player, market rank)
PropsOrder(x, y) ==
    \/ StrLess(x.player, y.player)
    \/ x.player = y.player /\ MarketRank(x.market_key) < MarketRank(y.market_key)

\* the sort key of the totals results: abs(diff), reverse=True
TotalsOrder(x, y) == Abs(x.diff) > Abs(y.diff)

\* list.sort is stable: x goes behind the rows that do not come after it
InsertProps(sorted, x) ==
    SubSeq(sorted, 1, Cardinality({i \in DOMAIN sorted : ~PropsOrder(x, sorted[i])}))
        \o <<x>>
        \o SubSeq(sorted, Cardinality({i \in DOMAIN sorted : ~PropsOrder(x, sorted[i])}) + 1,
                  Len(sorted))

\* results_list.sort(key=lambda x: (x['player'], MARKET_ORDER.index(...) or 99))
SortProps(results_list) ==
    LET s[i \in 0..Len(results_list)] ==
            IF i = 0 THEN <<>> ELSE InsertProps(s[i - 1], results_list[i])
    IN  s[Len(results_list)]

InsertTotals(sorted, x) ==
    SubSeq(sorted, 1, Cardinality({i \in DOMAIN sorted : ~TotalsOrder(x, sorted[i])}))
        \o <<x>>
        \o SubSeq(sorted, Cardinality({i \in DOMAIN sorted : ~TotalsOrder(x, sorted[i])}) + 1,
                  Len(sorted))

\* results_list.sort(key=lambda x: abs(x['diff']), reverse=True)
SortTotals(results_list) ==
    LET s[i \in 0..Len(results_list)] ==
            IF i = 0 THEN <<>> ELSE InsertTotals(s[i - 1], results_list[i])
    IN  s[Len(results_list)]

Shown(msgs, rows, raised) == [msgs |-> msgs, rows |-> rows, raised |-> raised]

MSG_NO_SNAPSHOT == "No snapshot data found. Take a snapshot first!"

MSG_NO_GAMES == "No games found within next hours."

MSG_NO_LIVE_ODDS == "No live odds data available."

MSG_NO_PRE_TOTALS == "Your snapshot has no totals data for the bookmaker!"

MSG_FOUND_TOTALS_FOR == "Found totals data for other bookmakers"

MSG_NO_LIVE_TOTALS == "No live game totals available."

MSG_NO_TOTALS_MOVED == "No game totals found with significant movement."

MSG_PRE_EMPTY == "Your snapshot is empty for the bookmaker!"

MSG_FOUND_FOR == "Found data for other bookmakers"

MSG_SCANNER_NEEDS_LIVE == "Scanner requires live games."

MSG_NO_PLAYER == "No player found matching the query."

MSG_NO_RECORDS == "No records found matching your criteria."

\* the end of the totals mode (lines 443-462): the rows sorted, or the info
ShowTotals(results_list) ==
    IF results_list # <<>>
    THEN Shown(<<>>, SortTotals(results_list), "")
    ELSE Shown(<<MSG_NO_TOTALS_MOVED>>, <<>>, "")

\* the totals mode on the two flattened sides (lines 415-462)
TotalsCompare(threshold, pre, live) ==
    IF pre.raised # "" THEN Shown(<<>>, <<>>, pre.raised)
    ELSE IF live.raised # "" THEN Shown(<<>>, <<>>, live.raised)
    ELSE IF pre.flat_list = <<>>
    THEN Shown(<<MSG_NO_PRE_TOTALS>>
                   \o (IF pre.found_bookies # {} THEN <<MSG_FOUND_TOTALS_FOR>> ELSE <<>>),
               <<>>, "")
    ELSE IF live.flat_list = <<>> THEN Shown(<<MSG_NO_LIVE_TOTALS>>, <<>>, "")
    ELSE ShowTotals(ScanJoin(TotalsMap(live.flat_list),
                             TotalsMap(pre.flat_list), threshold))

\* `if mode == "Game Totals":` (lines 410-462)
GameTotalsMode(threshold, pre_totals_data, live_totals_data) ==
    TotalsCompare(threshold, flatten_totals_data(pre_totals_data),
                  flatten_totals_data(live_totals_data))

\* `elif search_query or mode == "Market Scanner":` (line 596)
ShowsNoRecords(mode, search_query) == search_query # <<>> \/ mode = SCANNER

\* the end of the props mode (lines 559-597): the rows sorted, or the info
ShowProps(msgs, results_list, mode, search_query) ==
    IF results_list # <<>>
    THEN Shown(msgs, SortProps(results_list), "")
    ELSE IF ShowsNoRecords(mode, search_query)
    THEN Shown(msgs \o <<MSG_NO_RECORDS>>, <<>>, "")
    ELSE Shown(msgs, <<>>, "")

\* the search mode after its loop (lines 521-522, 559-597)
ShowSearch(found, mode, search_query) ==
    IF found.raised # "" THEN Shown(<<>>, <<>>, found.raised)
    ELSE ShowProps(IF found.found_match THEN <<>> ELSE <<MSG_NO_PLAYER>>,
                   found.results_list, mode, search_query)

\* the props modes on the two flattened sides (lines 469-597)
PropsCompare(mode, threshold, search_query, pre, live) ==
    IF pre.raised # "" THEN Shown(<<>>, <<>>, pre.raised)
    ELSE IF live.raised # "" THEN Shown(<<>>, <<>>, live.raised)
    ELSE IF pre.flat_list = <<>>
    THEN Shown(<<MSG_PRE_EMPTY>>
                   \o (IF pre.found_bookies # {} THEN <<MSG_FOUND_FOR>> ELSE <<>>),
               <<>>, "")
    ELSE IF mode = SCANNER
    THEN IF live.flat_list = <<>>
         THEN Shown(<<MSG_SCANNER_NEEDS_LIVE>>, <<>>, "")
         ELSE ShowProps(<<>>, ScanJoin(PropsMap(live.flat_list),
                                       PropsMap(pre.flat_list), threshold),
                        mode, search_query)
    ELSE IF search_query = <<>> THEN ShowProps(<<>>, <<>>, mode, search_query)
    ELSE ShowSearch(SearchJoin(PropsMap(pre.flat_list),
                               PropsMap(live.flat_list), search_query),
                    mode, search_query)

\* the else branch: "Player Props Mode" (lines 464-597)
PlayerPropsMode(mode, threshold, search_query, pre_props_data, live_props_data) ==
    PropsCompare(mode, threshold, search_query,
                 flatten_data(pre_props_data), flatten_data(live_props_data))

\* the inputs of a script run: the provider and the clock it meets, the
\* button clicked and the values of the sidebar widgets
RunInputs(provider, time, clicked, mode, threshold, search_query, hours_filter) ==
    [provider |-> provider, time |-> time, clicked |-> clicked, mode |-> mode,
     threshold |-> threshold, search_query |-> search_query,
     hours_filter |-> hours_filter]

\* lines 409-597: the comparison by mode
CompareLive(in, pre_game_data, live_props_data, totals) ==
    IF live_props_data = <<>> /\ totals.value = <<>>
    THEN [w |-> totals.w, shown |-> Shown(<<MSG_NO_LIVE_ODDS>>, <<>>, "")]
    ELSE [w     |-> totals.w,
          shown |-> IF in.mode = TOTALS
                    THEN GameTotalsMode(in.threshold,
                             Get(pre_game_data, "totals", <<>>), totals.value)
                    ELSE PlayerPropsMode(in.mode, in.threshold, in.search_query,
                             Get(pre_game_data, "props", <<>>), live_props_data)]

\* lines 402-403: the live odds of the upcoming games
CompareProps(in, pre_game_data, game_ids, props) ==
    CompareLive(in, pre_game_data, props.value,
                fetch_totals_for_games_cached(props.w, in.provider, game_ids, in.time))

\* lines 397-401
CompareUpcoming(in, pre_game_data, w, upcoming_games) ==
    IF upcoming_games = <<>>
    THEN [w |-> w, shown |-> Shown(<<MSG_NO_GAMES>>, <<>>, "")]
    ELSE CompareProps(in, pre_game_data, GameIds(upcoming_games),
             fetch_props_for_games_cached(w, in.provider, GameIds(upcoming_games), in.time))

\* lines 393-395
CompareGames(in, pre_game_data, games) ==
    CompareUpcoming(in, pre_game_data, games.w,
                    filter_upcoming_games(games.value, in.hours_filter, in.time))

\* lines 384-391
CompareLoaded(in, snapshot) ==
    IF snapshot.value.data = None
    THEN [w |-> snapshot.w, shown |-> Shown(<<MSG_NO_SNAPSHOT>>, <<>>, "")]
    ELSE CompareGames(in, snapshot.value.data,
                      get_active_games_cached(snapshot.w, in.provider, in.time))

\* the comparison block (lines 378-597) of a script run, from world w
CompareBlock(w, in) ==
    CompareLoaded(in, load_snapshot_cached([w EXCEPT !.scan_active = TRUE], in.time))

(***************************************************************************)
(* Payloads of the upstream odds provider (event -> bookmaker -> market -> *)
(* outcome) the model draws its inputs from.                               *)
(***************************************************************************)
Al == <<"A", "l">>

AlSpace == <<"A", "l", " ">>

Bo == <<"B", "o">>

\* highest outcomes per market in the normalizer's inputs
MaxOutcomes == 2

\* a player-market outcome: the price tells the outcomes apart
PlayerOutcome(name, description, point) ==
    [ name        |-> name,
      description |-> description,
      price       |-> IF name = "Over" THEN "1.91"
                      ELSE IF description = Bo THEN "2.05" ELSE "1.95",
      point       |-> point ]

\* a game-total outcome: the provider sends no description
TotalOutcome(name, point) ==
    [ name  |-> name,
      price |-> IF name = "Over" THEN "1.87" ELSE "1.99",
      point |-> point ]

Market(key, outcomes) == [key |-> key, outcomes |-> outcomes]

Book(key, markets) ==
    [ key     |-> key,
      title   |-> IF key = "draftkings" THEN "DraftKings" ELSE "FanDuel",
      markets |-> markets ]

Event(home_team, away_team, bookmakers) ==
    [ home_team  |-> home_team,
      away_team  |-> away_team,
      bookmakers |-> bookmakers ]

\* all sequences over S of length at most n
SeqsUpTo(S, n) == UNION {[1..k -> S] : k \in 0..n}

NormOutcomes ==
    {PlayerOutcome(n, d, Num(1)) : n \in {"Over", "Under"}, d \in {Al, Bo}}
        \cup {PlayerOutcome("Over", Al, None)}
        \cup {TotalOutcome(n, Num(1)) : n \in {"Over", "Under"}}

\* the market lists of a bookmaker quote: the market alone, or after a
\* totals market
NormMarkets(key, outcomes, with_totals) ==
    IF with_totals
    THEN <<Market("totals", <<TotalOutcome("Over", Num(2)), TotalOutcome("Under", Num(2))>>),
           Market(key, outcomes)>>
    ELSE <<Market(key, outcomes)>>

\* the quotes of an event: the target bookmaker's, another bookmaker's, or both
NormBooks(markets, books) ==
    CASE books = "target" -> <<Book("draftkings", markets)>>
      [] books = "other"  -> <<Book("fanduel", markets)>>
      [] books = "both"   -> <<Book("fanduel", markets), Book("draftkings", markets)>>

\* a payload of one event, or of the same event twice
NormPayload(bookmakers, twice) ==
    IF twice
    THEN <<Event("LAL", "BOS", bookmakers), Event("LAL", "BOS", bookmakers)>>
    ELSE <<Event("LAL", "BOS", bookmakers)>>

(***************************************************************************)
(* Specification SpecNorm: the normalizer applied to a payload.            *)
(***************************************************************************)
NormIdle == game_data_list = <<>> /\ flattened = [fn |-> "", result |-> NoRecords]

NothingLoaded == [ts |-> None, data |-> None, read |-> ""]

StoreIdle ==
    /\ drive = <<>>
    /\ now = 0
    /\ snapshot_cache = EmptyCache
    /\ loaded = NothingLoaded
    /\ saved = None

BlankScreen ==
    [sidebar |-> None, warned |-> FALSE, toast |-> FALSE, compared |-> FALSE,
     view |-> None,
     msgs |-> <<>>, rows |-> <<>>, raised |-> ""]

AppIdle ==
    /\ api = <<>>
    /\ games_cache = EmptyCache
    /\ props_cache = EmptyCache
    /\ totals_cache = EmptyCache
    /\ scan_active = FALSE
    /\ screen = BlankScreen

InitNorm ==
    /\ \E outcomes \in SeqsUpTo(NormOutcomes, MaxOutcomes),
          key \in {"player_points", "totals"},
          with_totals \in BOOLEAN,
          books \in {"target", "other", "both"},
          twice \in BOOLEAN :
            game_data_list = NormPayload(NormBooks(NormMarkets(key, outcomes, with_totals),
                                                   books), twice)
    /\ flattened = [fn |-> "", result |-> NoRecords]
    /\ StoreIdle
    /\ AppIdle

CallFlattenData ==
    /\ flattened' = [fn |-> "flatten_data", result |-> flatten_data(game_data_list)]
    /\ UNCHANGED <<game_data_list, store_vars, app_vars>>

CallFlattenTotalsData ==
    /\ flattened' = [fn |-> "flatten_totals_data",
                     result |-> flatten_totals_data(game_data_list)]
    /\ UNCHANGED <<game_data_list, store_vars, app_vars>>

NextNorm == CallFlattenData \/ CallFlattenTotalsData

SpecNorm == InitNorm /\ [][NextNorm]_vars

(***************************************************************************)
(* Specification SpecStore: the snapshot store under the calls of the      *)
(* single operator, starting from a folder with at most one snapshot file  *)
(* (of any stored shape), beside files the query does not select.          *)
(***************************************************************************)
\* highest number of events in a stored list
MaxStored == 1

\* highest number of clock ticks
MaxTicks == 2

\* a quote of a player market: the 'Over' and the 'Under' outcome of a player
QuoteOutcomes(quotes) ==
    [i \in 1..(2 * Len(quotes)) |->
        PlayerOutcome(IF i % 2 = 1 THEN "Over" ELSE "Under",
                      quotes[(i + 1) \div 2].player, quotes[(i + 1) \div 2].point)]

\* the provider's answer for the player markets of a game
PropsEvent(home_team, away_team, quotes) ==
    Event(home_team, away_team,
          <<Book("draftkings", <<Market("player_points", QuoteOutcomes(quotes))>>)>>)

\* the provider's answer for the totals market of a game
TotalsEvent(home_team, away_team, point) ==
    Event(home_team, away_team,
          <<Book("draftkings",
                 <<Market("totals", <<TotalOutcome("Over", point),
                                      TotalOutcome("Under", point)>>)>>)>>)

Quote(player, point) == [player |-> player, point |-> point]

StoredPropsEvent == PropsEvent("LAL", "BOS", <<Quote(Al, Num(1))>>)

StoredTotalsEvent == TotalsEvent("LAL", "BOS", Num(2))

\* the payloads the operator saves
StoreData ==
    { [props |-> p, totals |-> t] :
        p \in SeqsUpTo({StoredPropsEvent}, MaxStored),
        t \in SeqsUpTo({StoredTotalsEvent}, 1) }

\* the contents a snapshot file can have: the two legacy shapes, the
\* current shape, a dict of no known shape, and text that does not parse
LegacyListBlobs ==
    {DumpsList(l) : l \in SeqsUpTo({StoredPropsEvent, StoredTotalsEvent}, MaxStored)}

LegacyGamesBlobs ==
    UNION { { <<Tok("{", ""), Tok("key", "last_updated"), Tok("str", "old"),
                Tok("key", "games")>> \o DumpsList(l) \o <<Tok("}", "")>>,
              <<Tok("{", ""), Tok("key", "games")>> \o DumpsList(l) \o <<Tok("}", "")>> } :
            l \in SeqsUpTo({StoredPropsEvent, StoredTotalsEvent}, MaxStored) }

CurrentBlobs == {json_dumps([last_updated |-> <<"old">>, data |-> d]) : d \in StoreData}

OtherBlobs == { <<Tok("{", ""), Tok("}", "")>>, <<Tok("[", "")>> }

StoredBlobs == LegacyListBlobs \cup LegacyGamesBlobs \cup CurrentBlobs \cup OtherBlobs

\* files of the folder that the query of get_snapshot_file_id does not select
OtherFiles ==
    << File("notes.txt", FALSE, 0, <<>>),
       File(SNAPSHOT_FILENAME, TRUE, 0, DumpsList(<<>>)) >>

InitStore ==
    /\ NormIdle
    /\ AppIdle
    /\ now = 0
    /\ snapshot_cache = EmptyCache
    /\ loaded = NothingLoaded
    /\ saved = None
    /\ \/ drive = OtherFiles
       \/ \E blob \in StoredBlobs :
             drive = OtherFiles \o <<File(SNAPSHOT_FILENAME, FALSE, 0, blob)>>

\* one call of save_snapshot_to_drive(data); a Drive request that fails
\* (HttpError) leaves the folder as it is and the call returns None
SaveCall(data) ==
    \E file_id \in FoundFileIds(drive), ok \in BOOLEAN :
        LET done == save_snapshot_to_drive(drive, data, now, file_id)
        IN  /\ drive' = IF ok THEN done.folder ELSE drive
            /\ saved' = [data |-> data, msg |-> IF ok THEN done.msg ELSE None]
            /\ UNCHANGED <<now, snapshot_cache, loaded, norm_vars, app_vars>>

\* the shape of the document a load read
ShapeRead(folder, file_id) ==
    IF file_id = None THEN "nofile"
    ELSE LET content == json_load(folder[file_id[1]].content)
         IN  IF ~content.ok THEN "unparsable"
             ELSE IF content.kind = "list" THEN "list"
             ELSE IF "games" \in DOMAIN content.value THEN "games"
             ELSE IF "data" \in DOMAIN content.value THEN "data"
             ELSE "unknown"

\* one call of the cached load_snapshot_from_drive(): a fresh cache entry
\* answers it; otherwise the function runs (a Drive request that fails makes
\* it return (None, None)) and its return value is cached
LoadCall ==
    /\ IF CacheHit(snapshot_cache, <<>>, SNAPSHOT_TTL, now)
       THEN /\ loaded' = [CachedValue(snapshot_cache, <<>>) EXCEPT !.read = "cached"]
            /\ UNCHANGED snapshot_cache
       ELSE \E file_id \in FoundFileIds(drive), ok \in BOOLEAN :
              LET ret == IF ok THEN load_snapshot_from_drive(drive, file_id)
                         ELSE [ts |-> None, data |-> None]
                  got == [ts |-> ret.ts, data |-> ret.data,
                          read |-> IF ok THEN ShapeRead(drive, file_id) ELSE "failed"]
              IN  /\ loaded' = got
                  /\ snapshot_cache' = CacheStore(snapshot_cache, <<>>, got, now)
    /\ saved' = None
    /\ UNCHANGED <<drive, now, norm_vars, app_vars>>

OperatorSavesNew == \E data \in StoreData : SaveCall(data)

OperatorSavesLoaded == loaded.data # None /\ SaveCall(loaded.data)

OperatorLoads == LoadCall

\* load_snapshot_from_drive.clear()
ClearSnapshotCache ==
    /\ snapshot_cache # EmptyCache
    /\ snapshot_cache' = EmptyCache
    /\ UNCHANGED <<drive, now, loaded, saved, norm_vars, app_vars>>

Tick ==
    /\ now < MaxTicks * ODDS_TTL
    /\ now' = now + ODDS_TTL
    /\ UNCHANGED <<drive, snapshot_cache, loaded, saved, norm_vars, app_vars>>

NextStore ==
    \/ OperatorSavesNew
    \/ OperatorSavesLoaded
    \/ OperatorLoads
    \/ ClearSnapshotCache
    \/ Tick

SpecStore == InitStore /\ [][NextStore]_vars

(***************************************************************************)
(* Specification Spec: the app. Every interaction of the operator reruns   *)
(* the whole script, so every action is one script run: the button that    *)
(* was clicked (if any) and the values of the sidebar widgets are its      *)
(* inputs. The clock stands still and the provider's odds do not move in   *)
(* this specification, and Drive answers every request.                    *)
(***************************************************************************)
\* a game of the provider's game list
Game(id, home_team, away_team, commence_time) ==
    [id |-> id, home_team |-> home_team, away_team |-> away_team,
     commence_time |-> commence_time]

Provider(games, props, totals) == [games |-> games, props |-> props, totals |-> totals]

World ==
    [drive |-> drive, snapshot_cache |-> snapshot_cache, games_cache |-> games_cache,
     props_cache |-> props_cache, totals_cache |-> totals_cache,
     scan_active |-> scan_active]

\* a handler that saves whatever it fetched
SnapshotSaveAlways(in, props_data, totals) ==
    [w      |-> [totals.w EXCEPT
                    !.drive = save_snapshot_to_drive(totals.w.drive,
                                  [props |-> props_data, totals |-> totals.value],
                                  in.time,
                                  CHOOSE f \in FoundFileIds(totals.w.drive) : TRUE).folder,
                    !.snapshot_cache = EmptyCache],
     rerun  |-> TRUE, warned |-> FALSE]

\* lines 318-331 of the handler: save what was fetched and rerun, unless
\* nothing was fetched
SnapshotSave(in, props_data, totals) ==
    IF props_data # <<>> \/ totals.value # <<>>
    THEN [w      |-> [totals.w EXCEPT
                         !.drive = save_snapshot_to_drive(totals.w.drive,
                                       [props |-> props_data, totals |-> totals.value],
                                       in.time,
                                       CHOOSE f \in FoundFileIds(totals.w.drive) : TRUE).folder,
                         !.snapshot_cache = EmptyCache],
          rerun  |-> TRUE, warned |-> FALSE]
    ELSE [w |-> totals.w, rerun |-> FALSE, warned |-> FALSE]

\* lines 315-316
SnapshotFetch(in, game_ids, props) ==
    SnapshotSave(in, props.value,
                 fetch_totals_for_games_cached(props.w, in.provider, game_ids, in.time))

\* lines 310-331
SnapshotUpcoming(in, w, upcoming_games) ==
    IF upcoming_games = <<>>
    THEN [w |-> w, rerun |-> FALSE, warned |-> TRUE]
    ELSE SnapshotFetch(in, GameIds(upcoming_games),
             fetch_props_for_games_cached(w, in.provider, GameIds(upcoming_games), in.time))

\* lines 307-308
SnapshotGames(in, games) ==
    SnapshotUpcoming(in, games.w,
                     filter_upcoming_games(games.value, in.hours_filter, in.time))

\* `if st.sidebar.button("1. Take Pre-Game Snapshot"):` (lines 301-331);
\* rerun tells whether the handler reached st.rerun()
SnapshotButton(w, in) ==
    SnapshotGames(in, get_active_games_cached(
                          [w EXCEPT !.games_cache = EmptyCache,
                                    !.snapshot_cache = EmptyCache],
                          in.provider, in.time))

\* a refresh that clears the event list only
RefreshKeepsOdds(w) == [w EXCEPT !.games_cache = EmptyCache]

\* `if st.button("Force Refresh Live Odds"):` (lines 372-376)
RefreshButton(w) ==
    [w EXCEPT !.games_cache = EmptyCache, !.props_cache = EmptyCache,
              !.totals_cache = EmptyCache]

NotCompared(w) == [w |-> w, shown |-> Shown(<<>>, <<>>, "")]

\* what a finished run leaves: the world and the screen
Ran(ts, warned, compared, in, ended) ==
    [w      |-> ended.w,
     screen |-> [sidebar |-> ts, warned |-> warned, toast |-> in.clicked = "refresh",
                 compared |-> compared,
                 view |-> IF compared
                          THEN [mode |-> in.mode, threshold |-> in.threshold,
                                search_query |-> in.search_query]
                          ELSE None,
                 msgs |-> ended.shown.msgs, rows |-> ended.shown.rows,
                 raised |-> ended.shown.raised]]

\* lines 368-597: the two buttons and the comparison block
ScriptButtons(w, in, clicked, warned, ts) ==
    IF clicked = "compare" \/ w.scan_active
    THEN Ran(ts, warned, TRUE, in, CompareBlock(w, in))
    ELSE Ran(ts, warned, FALSE, in, NotCompared(w))

\* lines 343-376: the sidebar shows the snapshot's timestamp
ScriptSidebar(in, clicked, warned, side) ==
    ScriptButtons(IF clicked = "refresh" THEN RefreshButton(side.w) ELSE side.w,
                  in, clicked, warned, side.value.ts)

\* the script from the sidebar's snapshot line (line 343) to its end
ScriptBody(w, in, clicked, warned) ==
    ScriptSidebar(in, clicked, warned, load_snapshot_cached(w, in.time))

\* a run that handled the snapshot button: st.rerun() starts the script
\* again with no button clicked, otherwise it goes on
ScriptAfterSnapshot(in, snap) == ScriptBody(snap.w, in, "none", snap.warned)

\* one run of the script
ScriptRun(w, in) ==
    IF in.clicked = "snapshot"
    THEN ScriptAfterSnapshot(in, SnapshotButton(w, in))
    ELSE ScriptBody(w, in, in.clicked, FALSE)

\* thresholds and lines are in half points: the sliders start at 1.0
THRESHOLD_MIN == 2

\* highest threshold the operator sets
MaxThreshold == 3

\* highest line the provider quotes
MaxLine == 3

HOURS_DEFAULT == 24

Thresholds == THRESHOLD_MIN..MaxThreshold

Lines == {Num(n) : n \in 0..MaxLine}

Points == Lines \cup {None}

\* what the operator types into the search box
Queries == {<<>>, <<"a">>, Bo}

\* the values of the sidebar widgets (lines 352-365)
Views ==
    {[mode |-> SCANNER, threshold |-> t, search_query |-> <<>>] : t \in Thresholds}
        \cup {[mode |-> SEARCH, threshold |-> 0, search_query |-> q] : q \in Queries}
        \cup {[mode |-> TOTALS, threshold |-> t, search_query |-> <<>>] : t \in Thresholds}

\* the state a run leaves
Leaves(ran) ==
    /\ drive' = ran.w.drive
    /\ snapshot_cache' = ran.w.snapshot_cache
    /\ games_cache' = ran.w.games_cache
    /\ props_cache' = ran.w.props_cache
    /\ totals_cache' = ran.w.totals_cache
    /\ scan_active' = ran.w.scan_active
    /\ screen' = ran.screen

\* the inputs of a run in the current state
Inputs(clicked, view) ==
    RunInputs(api, now, clicked, view.mode, view.threshold, view.search_query,
              HOURS_DEFAULT)

\* the operator clicks "1. Take Pre-Game Snapshot"
TakeSnapshot ==
    \E view \in Views :
        /\ Leaves(ScriptRun(World, Inputs("snapshot", view)))
        /\ UNCHANGED <<api, now, loaded, saved, norm_vars>>

\* the operator clicks "2. Compare Live Data"
CompareLiveData ==
    \E view \in Views :
        /\ Leaves(ScriptRun(World, Inputs("compare", view)))
        /\ UNCHANGED <<api, now, loaded, saved, norm_vars>>

\* the operator clicks "Force Refresh Live Odds"
ForceRefresh ==
    \E view \in Views :
        /\ Leaves(ScriptRun(World, Inputs("refresh", view)))
        /\ UNCHANGED <<api, now, loaded, saved, norm_vars>>

\* the operator changes a sidebar widget, which reruns the script
ChangeWidget ==
    \E view \in Views :
        /\ Leaves(ScriptRun(World, Inputs("none", view)))
        /\ UNCHANGED <<api, now, loaded, saved, norm_vars>>

Next == TakeSnapshot \/ CompareLiveData \/ ForceRefresh \/ ChangeWidget

\* the games of the scenarios: both start in two hours
G1 == Game("g1", "LAL", "BOS", Num(2 * SECONDS_PER_HOUR))

G2 == Game("g2", "MIA", "NYK", Num(2 * SECONDS_PER_HOUR))

\* a folder whose snapshot file holds the current-shape document of data
FolderWith(data) ==
    OtherFiles \o <<File(SNAPSHOT_FILENAME, FALSE, 0,
                         json_dumps([last_updated |-> <<"old">>, data |-> data]))>>

\* one player quoted before and now
OnePlayerScenario ==
    \E pre_name \in {Al, AlSpace, Bo}, pre_point \in Points, live_point \in Points :
        /\ drive = FolderWith([props  |-> <<PropsEvent("LAL", "BOS",
                                                <<Quote(pre_name, pre_point)>>)>>,
                               totals |-> <<TotalsEvent("LAL", "BOS", Num(1))>>])
        /\ api = Provider(<<G1>>,
                     [g1 |-> PropsEvent("LAL", "BOS", <<Quote(Al, live_point)>>)],
                     [g1 |-> TotalsEvent("LAL", "BOS", Num(1))])

\* two quotes on each side: two players, or one player quoted twice
TwoQuotesScenario ==
    \E pre_name \in {Al, Bo}, pre_point \in Lines, live_name \in {Al, Bo},
       live_bo \in {Num(0), Num(MaxLine)}, live_al \in Lines :
        /\ drive = FolderWith([props  |-> <<PropsEvent("LAL", "BOS",
                                                <<Quote(Al, Num(0)),
                                                  Quote(pre_name, pre_point)>>)>>,
                               totals |-> <<>>])
        /\ api = Provider(<<G1>>,
                     [g1 |-> PropsEvent("LAL", "BOS",
                                 <<Quote(live_name, live_bo), Quote(Al, live_al)>>)],
                     [g1 |-> None])

\* two games with a total each; the snapshot can hold the first game twice
TotalsScenario ==
    \E pre_first \in Points, pre_twice \in BOOLEAN, live_first \in Points,
       live_second \in {Num(0), Num(MaxLine)} :
        /\ drive = FolderWith(
                     [props  |-> <<PropsEvent("LAL", "BOS", <<Quote(Al, Num(0))>>)>>,
                      totals |-> <<TotalsEvent("LAL", "BOS", pre_first),
                                   IF pre_twice THEN TotalsEvent("LAL", "BOS", Num(0))
                                   ELSE TotalsEvent("MIA", "NYK", Num(0))>>])
        /\ api = Provider(<<G1, G2>>,
                     [g1 |-> PropsEvent("LAL", "BOS", <<Quote(Al, Num(1))>>), g2 |-> None],
                     [g1 |-> TotalsEvent("LAL", "BOS", live_first),
                      g2 |-> TotalsEvent("MIA", "NYK", live_second)])

\* an answer that quotes another bookmaker only
OtherBookEvent ==
    Event("LAL", "BOS",
          <<Book("fanduel", <<Market("player_points",
                                     QuoteOutcomes(<<Quote(Al, Num(1))>>))>>)>>)

\* the folders of the scenarios in which something is missing: no snapshot
\* file, a file in a legacy shape, of no known shape or that does not
\* parse, empty lists, another bookmaker only
SparseFolders ==
    {OtherFiles, FolderWith([props |-> <<>>, totals |-> <<>>]),
     FolderWith([props |-> <<OtherBookEvent>>, totals |-> <<>>]),
     FolderWith([props |-> <<StoredPropsEvent>>, totals |-> <<StoredTotalsEvent>>])}
        \cup {OtherFiles \o <<File(SNAPSHOT_FILENAME, FALSE, 0, blob)>> :
                 blob \in OtherBlobs \cup {DumpsList(<<StoredPropsEvent>>)}}

\* the providers of those scenarios: no game, a game outside every window
\* or already started, a game whose time does not parse, failed odds
\* requests, another bookmaker only
SparseProviders ==
    {Provider(<<>>, <<>>, <<>>)}
        \cup {Provider(<<Game("g1", "LAL", "BOS", t)>>,
                       [g1 |-> StoredPropsEvent], [g1 |-> StoredTotalsEvent]) :
                 t \in {Num(72 * SECONDS_PER_HOUR), Num(0 - SECONDS_PER_HOUR), None,
                        Num(2 * SECONDS_PER_HOUR)}}
        \cup {Provider(<<G1>>, [g1 |-> None], [g1 |-> None]),
              Provider(<<G1>>, [g1 |-> OtherBookEvent], [g1 |-> None]),
              Provider(<<G1>>, [g1 |-> None], [g1 |-> StoredTotalsEvent])}

SparseScenario ==
    \E folder \in SparseFolders, provider \in SparseProviders :
        drive = folder /\ api = provider

Init ==
    /\ NormIdle
    /\ now = 0
    /\ snapshot_cache = EmptyCache
    /\ loaded = NothingLoaded
    /\ saved = None
    /\ games_cache = EmptyCache
    /\ props_cache = EmptyCache
    /\ totals_cache = EmptyCache
    /\ scan_active = FALSE
    /\ screen = BlankScreen
    /\ OnePlayerScenario \/ TwoQuotesScenario \/ TotalsScenario \/ SparseScenario

Spec == Init /\ [][Next]_vars

(***************************************************************************)
(* Specification SpecLive: the app while time passes and the provider's    *)
(* odds move. The operator's clicks are script runs as in Spec, with the   *)
(* widgets at one of two settings; between two runs the clock can advance  *)
(* and the provider can change its answers. Drive always answers.          *)
(***************************************************************************)
\* the instants at which the operator meets the app: half an odds
\* time-to-live after the start and a whole one, and the same around the
\* event list's time-to-live
Instants ==
    {0, ODDS_TTL \div 2, ODDS_TTL, GAMES_TTL - ODDS_TTL \div 2, GAMES_TTL}

\* the provider when its line stands at point: one game, whose start it
\* announces later once the line has moved
LiveProvider(point) ==
    Provider(<<Game("g1", "LAL", "BOS", Num((2 + point[1]) * SECONDS_PER_HOUR))>>,
             [g1 |-> PropsEvent("LAL", "BOS", <<Quote(Al, point)>>)],
             [g1 |-> TotalsEvent("LAL", "BOS", point)])

LiveProviders == {LiveProvider(Num(0)), LiveProvider(Num(MaxLine))}

\* the widget settings of the runs
LiveViews ==
    {[mode |-> SCANNER, threshold |-> THRESHOLD_MIN, search_query |-> <<>>],
     [mode |-> TOTALS, threshold |-> THRESHOLD_MIN, search_query |-> <<>>]}

InitLive ==
    /\ NormIdle
    /\ now = 0
    /\ snapshot_cache = EmptyCache
    /\ loaded = NothingLoaded
    /\ saved = None
    /\ games_cache = EmptyCache
    /\ props_cache = EmptyCache
    /\ totals_cache = EmptyCache
    /\ scan_active = FALSE
    /\ screen = BlankScreen
    /\ drive = FolderWith([props  |-> <<StoredPropsEvent>>,
                           totals |-> <<StoredTotalsEvent>>])
    /\ api \in LiveProviders

\* the operator clicks "1. Take Pre-Game Snapshot"
SnapshotClicked ==
    \E view \in LiveViews :
        /\ Leaves(ScriptRun(World, Inputs("snapshot", view)))
        /\ UNCHANGED <<api, now, loaded, saved, norm_vars>>

\* the operator clicks "2. Compare Live Data"
CompareClicked ==
    \E view \in LiveViews :
        /\ Leaves(ScriptRun(World, Inputs("compare", view)))
        /\ UNCHANGED <<api, now, loaded, saved, norm_vars>>

\* the operator clicks "Force Refresh Live Odds"
RefreshClicked ==
    \E view \in LiveViews :
        /\ Leaves(ScriptRun(World, Inputs("refresh", view)))
        /\ UNCHANGED <<api, now, loaded, saved, norm_vars>>

\* the operator changes a sidebar widget, which reruns the script
WidgetChanged ==
    \E view \in LiveViews :
        /\ Leaves(ScriptRun(World, Inputs("none", view)))
        /\ UNCHANGED <<api, now, loaded, saved, norm_vars>>

\* time passes until a later instant
TimePasses ==
    /\ \E t \in Instants : t > now /\ now' = t
    /\ UNCHANGED <<drive, snapshot_cache, loaded, saved, norm_vars, app_vars>>

\* the upstream provider changes its event list and its odds
ProviderMoves ==
    /\ \E provider \in LiveProviders : provider # api /\ api' = provider
    /\ UNCHANGED <<games_cache, props_cache, totals_cache, scan_active, screen,
                   store_vars, norm_vars>>

NextLive ==
    \/ SnapshotClicked
    \/ CompareClicked
    \/ RefreshClicked
    \/ WidgetChanged
    \/ TimePasses
    \/ ProviderMoves

SpecLive == InitLive /\ [][NextLive]_vars

(***************************************************************************)
(* Claims about the normalizer (checked under SpecNorm).                   *)
(***************************************************************************)
\* the places <<game, bookmaker, market, outcome>> of a payload's outcomes
OutcomeSlots(games) ==
    UNION { UNION { UNION {
        { <<g, b, m, o>> : o \in DOMAIN games[g].bookmakers[b].markets[m].outcomes } :
            m \in DOMAIN games[g].bookmakers[b].markets } :
            b \in DOMAIN games[g].bookmakers } :
            g \in DOMAIN games }

SlotBook(games, s) == games[s[1]].bookmakers[s[2]]

SlotMarket(games, s) == SlotBook(games, s).markets[s[3]]

SlotOutcome(games, s) == SlotMarket(games, s).outcomes[s[4]]

\* the 'Over' outcomes of the target bookmaker a call of fn has to turn into
\* records: those of every market (flatten_data), of the totals markets
\* (flatten_totals_data)
OverSlots(fn, games) ==
    { s \in OutcomeSlots(games) :
        /\ SlotBook(games, s).key = "draftkings"
        /\ fn = "flatten_totals_data" => SlotMarket(games, s).key = "totals"
        /\ SlotOutcome(games, s).name = "Over" }

\* the (subject, market_key, bookmaker) combination of an 'Over' outcome
SlotCombination(fn, games, s) ==
    << IF fn = "flatten_totals_data"
       THEN <<games[s[1]].away_team, " @ ", games[s[1]].home_team>>
       ELSE SlotOutcome(games, s).description,
       SlotMarket(games, s).key,
       SlotBook(games, s).title >>

\* the (subject, market_key, bookmaker) combination of a flattened record
RecordCombination(fn, r) ==
    << IF fn = "flatten_totals_data" THEN r.matchup ELSE r.player, r.market_key, r.book >>

\* the price of the first 'Under' outcome of a market, '-' when it has none
FirstUnderPrice(market) ==
    LET us == {j \in DOMAIN market.outcomes : market.outcomes[j].name = "Under"}
    IN  IF us = {} THEN "-"
        ELSE market.outcomes[CHOOSE j \in us : \A k \in us : j <= k].price

\* the call returned (it did not raise)
Returned == flattened.fn # "" /\ flattened.result.raised = ""

\* the same payload without its totals markets
WithoutTotals(games) ==
    [ g \in DOMAIN games |->
        [ games[g] EXCEPT !.bookmakers =
            [ b \in DOMAIN @ |->
                [ @[b] EXCEPT !.markets =
                    SelectSeq(@, LAMBDA m : m.key # "totals") ] ] ] ]

\* C9 (as claimed): flatten_totals_data makes records only from the markets
\* whose key is 'totals', and flatten_data makes no record from a market whose
\* key is 'totals': it treats a quote that carries a totals market as it
\* treats the quote without it.
C9_MarketModeFiltering ==
    /\ flattened.fn = "flatten_totals_data" /\ flattened.result.raised = ""
         => Len(flattened.result.flat_list)
              = Cardinality({ s \in OutcomeSlots(game_data_list) :
                    /\ SlotBook(game_data_list, s).key = "draftkings"
                    /\ SlotMarket(game_data_list, s).key = "totals"
                    /\ SlotOutcome(game_data_list, s).name = "Over" })
    /\ flattened.fn = "flatten_data"
         => /\ flattened.result = flatten_data(WithoutTotals(game_data_list))
            /\ \A i \in DOMAIN flattened.result.flat_list :
                  flattened.result.flat_list[i].market_key # "totals"

\* C10 (as claimed): the output holds exactly one record for each
\* (subject, market_key, bookmaker) combination of the target bookmaker that
\* has an 'Over' outcome, and no other record; the record's under price is
\* that of the market's 'Under' outcome, or '-' when the market has none.
C10_OneRecordPerCombination ==
    Returned =>
        LET fn    == flattened.fn
            flat  == flattened.result.flat_list
            slots == OverSlots(fn, game_data_list)
        IN  /\ \A s \in slots :
                 Cardinality({ i \in DOMAIN flat :
                     RecordCombination(fn, flat[i])
                         = SlotCombination(fn, game_data_list, s) }) = 1
            /\ \A i \in DOMAIN flat : \E s \in slots :
                 /\ RecordCombination(fn, flat[i]) = SlotCombination(fn, game_data_list, s)
                 /\ flat[i].over = SlotOutcome(game_data_list, s).price
                 /\ flat[i].under = FirstUnderPrice(SlotMarket(game_data_list, s))

\* C10 (amended): the output holds exactly one record for each 'Over' outcome
\* of the target bookmaker, so a (subject, market_key, bookmaker) combination
\* gets as many records as the payload has 'Over' outcomes for it, and no
\* other record: a market without 'Over' outcome gives none, an 'Under'
\* outcome gives none of its own; every record's under price is the price of
\* the first 'Under' outcome of its market, or '-' when the market has none.
C10_OneRecordPerOverOutcome ==
    Returned =>
        LET fn    == flattened.fn
            flat  == flattened.result.flat_list
            slots == OverSlots(fn, game_data_list)
        IN  /\ Len(flat) = Cardinality(slots)
            /\ \A s \in slots :
                 Cardinality({ i \in DOMAIN flat :
                     RecordCombination(fn, flat[i])
                         = SlotCombination(fn, game_data_list, s) })
                   = Cardinality({ t \in slots :
                         SlotCombination(fn, game_data_list, t)
                             = SlotCombination(fn, game_data_list, s) })
            /\ \A i \in DOMAIN flat : \E s \in slots :
                 /\ RecordCombination(fn, flat[i]) = SlotCombination(fn, game_data_list, s)
                 /\ flat[i].line = SlotOutcome(game_data_list, s).point
                 /\ flat[i].over = SlotOutcome(game_data_list, s).price
                 /\ flat[i].under = FirstUnderPrice(SlotMarket(game_data_list, s))

\* C10 witness: a call returned for a payload in which one market of the
\* target bookmaker has an 'Over' and an 'Under' outcome, another outcome
\* list has no 'Over' at all, and some combination has two 'Over' outcomes.
C10_Witness ==
    /\ Returned
    /\ \E s, t \in OverSlots(flattened.fn, game_data_list) :
         /\ s # t
         /\ SlotCombination(flattened.fn, game_data_list, s)
              = SlotCombination(flattened.fn, game_data_list, t)
         /\ FirstUnderPrice(SlotMarket(game_data_list, s)) # "-"
    /\ \E s \in OutcomeSlots(game_data_list) :
         /\ SlotBook(game_data_list, s).key = "draftkings"
         /\ \A o \in DOMAIN SlotMarket(game_data_list, s).outcomes :
              SlotMarket(game_data_list, s).outcomes[o].name = "Under"

\* the keys of all bookmaker quotes of a payload
BookKeys(games) ==
    UNION { { games[g].bookmakers[b].key : b \in DOMAIN games[g].bookmakers } :
        g \in DOMAIN games }

\* the 'Over' outcomes of the quotes whose key is the configured target
TargetSlots(games) ==
    { s \in OutcomeSlots(games) :
        /\ SlotBook(games, s).key = TARGET_BOOKMAKER_KEY
        /\ SlotOutcome(games, s).name = "Over" }

\* C11: whenever a normalizer returns, every record of its output is made
\* from an 'Over' outcome of a quote whose key is the configured target
\* bookmaker (it carries that quote's title, that game's teams, that
\* outcome's line and price), the output has no more records than the target
\* quotes have 'Over' outcomes, and the observed-bookmakers set is the set of
\* the keys of all bookmaker quotes of the payload, the skipped ones included.
C11_BookmakerFilter ==
    Returned =>
        /\ \A i \in DOMAIN flattened.result.flat_list :
              \E s \in TargetSlots(game_data_list) :
                 /\ flattened.result.flat_list[i].book = SlotBook(game_data_list, s).title
                 /\ flattened.result.flat_list[i].market_key = SlotMarket(game_data_list, s).key
                 /\ flattened.result.flat_list[i].home_team = game_data_list[s[1]].home_team
                 /\ flattened.result.flat_list[i].away_team = game_data_list[s[1]].away_team
                 /\ flattened.result.flat_list[i].line = SlotOutcome(game_data_list, s).point
                 /\ flattened.result.flat_list[i].over = SlotOutcome(game_data_list, s).price
        /\ Len(flattened.result.flat_list) <= Cardinality(TargetSlots(game_data_list))
        /\ flattened.result.found_bookies = BookKeys(game_data_list)

\* C11 witness: a call returned records for a payload in which a game has a
\* quote of another bookmaker, with 'Over' outcomes, next to the target's.
C11_Witness ==
    /\ Returned
    /\ flattened.result.flat_list # <<>>
    /\ \E s \in OutcomeSlots(game_data_list) :
         /\ SlotBook(game_data_list, s).key # TARGET_BOOKMAKER_KEY
         /\ SlotOutcome(game_data_list, s).name = "Over"
         /\ \E b \in DOMAIN game_data_list[s[1]].bookmakers :
              game_data_list[s[1]].bookmakers[b].key = TARGET_BOOKMAKER_KEY
    /\ Cardinality(flattened.result.found_bookies) > 1

(***************************************************************************)
(* Claims about the snapshot store (checked under SpecStore).              *)
(***************************************************************************)
AtMostOneSnapshot == Cardinality(SnapshotFileIds(drive)) <= 1

\* after a successful save, the file found as newest holds
\* {"last_updated": <the save's timestamp>, "data": <the save's data>}
NewestHoldsLastSave ==
    (saved # None /\ saved.msg # None) =>
        /\ NewestFileIds(drive) # {}
        /\ \A id \in NewestFileIds(drive) :
             LET doc == json_load(drive[id].content)
             IN  /\ doc.ok
                 /\ doc.kind = "dict"
                 /\ DOMAIN doc.value = {"last_updated", "data"}
                 /\ doc.value.last_updated = saved.msg[2]
                 /\ doc.value.data = saved.data

\* a step creates a file only when the folder has no snapshot file, writes
\* no file but the snapshot file found, and renames or trashes none
UpdateElseCreate ==
    /\ Len(drive') \in {Len(drive), Len(drive) + 1}
    /\ SnapshotFileIds(drive) # {} => Len(drive') = Len(drive)
    /\ Len(drive') = Len(drive) + 1 => Len(drive') \in SnapshotFileIds(drive')
    /\ \A id \in DOMAIN drive :
         /\ drive'[id].name = drive[id].name
         /\ drive'[id].trashed = drive[id].trashed
         /\ drive'[id] # drive[id] => id \in NewestFileIds(drive)

\* C4: from a folder with at most one snapshot file, every sequence of
\* save_snapshot_to_drive calls leaves at most one snapshot file; a save
\* updates the existing file when there is one and creates a file only when
\* there is none, and after a successful save the newest file holds the
\* payload of that save.
C4_SingleSnapshotSlot ==
    /\ [](AtMostOneSnapshot /\ NewestHoldsLastSave)
    /\ [][UpdateElseCreate]_vars

\* C4 witness: a save has updated the one snapshot file of the folder.
C4_Witness ==
    /\ saved # None
    /\ saved.msg # None
    /\ saved.msg[1] = "Updated snapshot"
    /\ Cardinality(SnapshotFileIds(drive)) = 1
    /\ now > 0

\* a load that read a blob of a legacy shape returned the current shape
LegacyLoadsAsCurrent ==
    loaded.read \in {"list", "games"} => DOMAIN loaded.data = {"props", "totals"}

\* the last load read a legacy blob and the payload it returned has since
\* been saved (successfully, and by the last save)
LegacyPayloadSaved ==
    /\ loaded.read \in {"list", "games"}
    /\ saved # None
    /\ saved.msg # None
    /\ saved.data = loaded.data

\* C5: a load of a blob of a legacy shape returns a payload of the current
\* shape {props, totals}, and once that payload is saved, the next load (one
\* whose Drive requests do not fail) returns the same props and totals.
C5_LegacyRoundTrip ==
    /\ []LegacyLoadsAsCurrent
    /\ [][ (LegacyPayloadSaved /\ LoadCall /\ loaded'.read # "failed") =>
             /\ DOMAIN loaded'.data = {"props", "totals"}
             /\ loaded'.data.props = loaded.data.props
             /\ loaded'.data.totals = loaded.data.totals ]_vars

\* C5 witness: a load reads a blob of the current shape whose props hold a
\* totals event, which no payload the operator makes up has: the blob is a
\* migrated legacy list that was saved back.
C5_Witness ==
    /\ loaded.read = "data"
    /\ loaded.data # None
    /\ \E i \in DOMAIN loaded.data.props : loaded.data.props[i] = StoredTotalsEvent

(***************************************************************************)
(* Claims about the comparison (checked under Spec). After a run that      *)
(* compared, the caches hold what the run compared: the snapshot it loaded *)
(* and the live odds it fetched.                                           *)
(***************************************************************************)
\* the snapshot data of the last run
PreData == IF snapshot_cache = EmptyCache THEN None ELSE snapshot_cache[1].value.data

\* the live odds of the last run
LiveData(cache) == IF cache = EmptyCache THEN <<>> ELSE cache[Len(cache)].value

\* the flattened records of the two sides in a mode
PreFlat(mode) ==
    IF mode = TOTALS THEN flatten_totals_data(Get(PreData, "totals", <<>>)).flat_list
    ELSE flatten_data(Get(PreData, "props", <<>>)).flat_list

LiveFlat(mode) ==
    IF mode = TOTALS THEN flatten_totals_data(LiveData(totals_cache)).flat_list
    ELSE flatten_data(LiveData(props_cache)).flat_list

\* the identity key of a record or of a row in a mode
RecordKey(mode, x) == IF mode = TOTALS THEN x.matchup ELSE x.player \o <<"|", x.market_key>>

KeysOf(mode, flat) == {RecordKey(mode, flat[i]) : i \in DOMAIN flat}

\* the last record of a key in a flattened list
LastOf(mode, flat, key) ==
    flat[CHOOSE i \in DOMAIN flat :
            /\ RecordKey(mode, flat[i]) = key
            /\ \A j \in DOMAIN flat : RecordKey(mode, flat[j]) = key => j <= i]

\* the last run compared in this mode
ShownFor(mode) == screen.compared /\ screen.view.mode = mode

RowsOfKey(mode, key) ==
    {r \in DOMAIN screen.rows : RecordKey(mode, screen.rows[r]) = key}

\* the pair (pre, live) is in the result set
PairInResult(mode, pre, live) ==
    \E r \in RowsOfKey(mode, RecordKey(mode, live)) :
        /\ screen.rows[r].status = "active"
        /\ screen.rows[r].live_display = live.line
        /\ screen.rows[r].pre_display = pre.line

\* C1 as stated: in scanner and totals mode, every pre-game record and live
\* record with the same identity key and non-null lines are in the result
\* set iff abs(live.line - pre.line) >= threshold; a pair with a null line
\* never is, and a pre-game record without live counterpart never is.
C1_ScannerInclusionLaw ==
    \A mode \in {SCANNER, TOTALS} :
        ShownFor(mode) =>
            /\ \A i \in DOMAIN PreFlat(mode), j \in DOMAIN LiveFlat(mode) :
                 LET pre  == PreFlat(mode)[i]
                     live == LiveFlat(mode)[j]
                 IN  RecordKey(mode, pre) = RecordKey(mode, live) =>
                        IF pre.line # None /\ live.line # None
                        THEN PairInResult(mode, pre, live)
                                 <=> Abs(live.line[1] - pre.line[1]) >= screen.view.threshold
                        ELSE ~PairInResult(mode, pre, live)
            /\ \A i \in DOMAIN PreFlat(mode) :
                 RecordKey(mode, PreFlat(mode)[i]) \notin KeysOf(mode, LiveFlat(mode))
                     => RowsOfKey(mode, RecordKey(mode, PreFlat(mode)[i])) = {}

\* C1 amended: the law holds of the last record of each identity key on
\* each side. In scanner and totals mode a key has one row, built from the
\* last pre-game and the last live record of the key, iff both sides have
\* the key, both lines are non-null and abs(live.line - pre.line) >=
\* threshold; otherwise the key has no row, and every row has a live key.
C1_ScannerLawOnLastRecords ==
    \A mode \in {SCANNER, TOTALS} :
        ShownFor(mode) =>
            /\ \A key \in KeysOf(mode, PreFlat(mode)) \cup KeysOf(mode, LiveFlat(mode)) :
                 IF /\ key \in KeysOf(mode, PreFlat(mode))
                    /\ key \in KeysOf(mode, LiveFlat(mode))
                    /\ LastOf(mode, PreFlat(mode), key).line # None
                    /\ LastOf(mode, LiveFlat(mode), key).line # None
                    /\ Abs(LastOf(mode, LiveFlat(mode), key).line[1]
                               - LastOf(mode, PreFlat(mode), key).line[1])
                           >= screen.view.threshold
                 THEN /\ Cardinality(RowsOfKey(mode, key)) = 1
                      /\ PairInResult(mode, LastOf(mode, PreFlat(mode), key),
                                      LastOf(mode, LiveFlat(mode), key))
                 ELSE RowsOfKey(mode, key) = {}
            /\ \A r \in DOMAIN screen.rows :
                 RecordKey(mode, screen.rows[r]) \in KeysOf(mode, LiveFlat(mode))

\* a scanner run over two matched pairs with lines, one of which moved by
\* the threshold or more and is shown, while the other is not
C1_Witness ==
    /\ ShownFor(SCANNER)
    /\ Len(screen.rows) = 1
    /\ \E key \in KeysOf(SCANNER, PreFlat(SCANNER)) \cap KeysOf(SCANNER, LiveFlat(SCANNER)) :
          /\ RowsOfKey(SCANNER, key) = {}
          /\ LastOf(SCANNER, PreFlat(SCANNER), key).line # None
          /\ LastOf(SCANNER, LiveFlat(SCANNER), key).line # None

\* the pre-game records the query matches: lower-cased query inside the
\* lower-cased player name
MatchingPre(query) ==
    {i \in DOMAIN PreFlat(SEARCH) :
        Contains(lower(query), lower(PreFlat(SEARCH)[i].player))}

\* C2: in search mode with a non-empty query every pre-game record whose
\* player name contains the query has exactly one result row; the row is
\* 'active' iff the live records hold its identity key, and otherwise it is
\* 'inactive' with no live line and diff 0.
C2_SearchCompleteness ==
    (ShownFor(SEARCH) /\ screen.view.search_query # <<>>) =>
        \A i \in MatchingPre(screen.view.search_query) :
            LET key == RecordKey(SEARCH, PreFlat(SEARCH)[i])
            IN  /\ Cardinality(RowsOfKey(SEARCH, key))
                       = Cardinality({j \in MatchingPre(screen.view.search_query) :
                                         RecordKey(SEARCH, PreFlat(SEARCH)[j]) = key})
                /\ \A r \in RowsOfKey(SEARCH, key) :
                       IF key \in KeysOf(SEARCH, LiveFlat(SEARCH))
                       THEN screen.rows[r].status = "active"
                       ELSE /\ screen.rows[r].status = "inactive"
                            /\ screen.rows[r].live_display = "No Live Game"
                            /\ screen.rows[r].diff = 0

\* str.strip() on a player name
RECURSIVE strip(_)
strip(s) ==
    IF s = <<>> THEN s
    ELSE IF Head(s) = " " THEN strip(Tail(s))
    ELSE IF s[Len(s)] = " " THEN strip(SubSeq(s, 1, Len(s) - 1))
    ELSE s

\* C3: the identity key trims the player description, so a pre-game record
\* and a live record of the same market whose descriptions differ only in
\* surrounding whitespace have the same key, and a search that finds the
\* pre-game record shows it as 'active'.
C3_KeyTrimsWhitespace ==
    (screen.compared /\ screen.raised = "") =>
        \A i \in DOMAIN PreFlat(SEARCH), j \in DOMAIN LiveFlat(SEARCH) :
            LET pre  == PreFlat(SEARCH)[i]
                live == LiveFlat(SEARCH)[j]
            IN  (pre.market_key = live.market_key /\ strip(pre.player) = strip(live.player))
                    => /\ PropsKey(pre) = PropsKey(live)
                       /\ \A r \in RowsOfKey(screen.view.mode, PropsKey(pre)) :
                              screen.view.mode = SEARCH => screen.rows[r].status = "active"

\* C6: a run of the comparison that completes without showing a result row
\* shows an inline message, whatever the snapshot, the live data, the mode,
\* the threshold and the search query (the empty query included).
C6_NoSilentEmptyResult ==
    (screen.compared /\ screen.raised = "" /\ screen.rows = <<>>) => screen.msgs # <<>>

\* the two sides hold a matched pair with a null line
NullLinePair(mode) ==
    \E i \in DOMAIN PreFlat(mode), j \in DOMAIN LiveFlat(mode) :
        /\ RecordKey(mode, PreFlat(mode)[i]) = RecordKey(mode, LiveFlat(mode)[j])
        /\ PreFlat(mode)[i].line = None \/ LiveFlat(mode)[j].line = None

\* C7: in scanner, search and totals mode alike, a comparison over a
\* matched pair with a null pre-game or live line completes normally, and
\* no row is computed from a null line.
C7_NullLinePolicy ==
    (screen.compared /\ NullLinePair(screen.view.mode)) =>
        /\ screen.raised = ""
        /\ \A r \in DOMAIN screen.rows :
               screen.rows[r].status = "active" =>
                   screen.rows[r].live_display # None /\ screen.rows[r].pre_display # None

\* the rows are in descending order of abs(diff)
DescendingAbsDiff(rows) ==
    \A r \in 1..(Len(rows) - 1) : Abs(rows[r].diff) >= Abs(rows[r + 1].diff)

\* the rows are in ascending order of (player, place of the market in
\* MARKET_ORDER, 99 for a market not in it)
AscendingPlayerMarket(rows) ==
    \A r \in 1..(Len(rows) - 1) :
        \/ StrLess(rows[r].player, rows[r + 1].player)
        \/ /\ rows[r].player = rows[r + 1].player
           /\ MarketRank(rows[r].market_key) <= MarketRank(rows[r + 1].market_key)

Entries(cache) == {cache[i] : i \in DOMAIN cache}

HasEntry(cache, key) == \E i \in DOMAIN cache : cache[i].key = key

EntryOf(cache, key) == cache[CHOOSE i \in DOMAIN cache : cache[i].key = key]

\* the entry of key is in the cache and younger than ttl
WithinTTL(cache, key, ttl) ==
    HasEntry(cache, key) /\ now - EntryOf(cache, key).at < ttl

\* the entry was stored at this instant with the provider's present answer
GamesRetrievedNow(e) == e.at = now /\ e.value = api.games

PropsRetrievedNow(e) == e.at = now /\ e.value = FetchAll(api.props, e.key)

TotalsRetrievedNow(e) == e.at = now /\ e.value = FetchAll(api.totals, e.key)

\* the ids of the upcoming games of the cached event list
LiveKey ==
    GameIds(filter_upcoming_games(LiveData(games_cache), HOURS_DEFAULT, now))

\* the comparison on the screen got as far as the event list, the odds
ComparedGames == screen.compared /\ screen.msgs # <<MSG_NO_SNAPSHOT>>

ComparedOdds == ComparedGames /\ screen.msgs # <<MSG_NO_GAMES>>

\* what the comparison shows when made from the cached entries
ShownFromCaches ==
    CompareLive(RunInputs(api, now, "none", screen.view.mode, screen.view.threshold,
                          screen.view.search_query, HOURS_DEFAULT),
                PreData, EntryOf(props_cache, LiveKey).value,
                [value |-> EntryOf(totals_cache, LiveKey).value, w |-> World]).shown

\* the comparison on the screen is the one of the cached odds
ComparedFromCaches ==
    ComparedOdds =>
        /\ HasEntry(props_cache, LiveKey)
        /\ HasEntry(totals_cache, LiveKey)
        /\ screen.msgs = ShownFromCaches.msgs
        /\ screen.rows = ShownFromCaches.rows
        /\ screen.raised = ShownFromCaches.raised

\* the entries a comparison on the screen is made from are younger than
\* their time-to-live
ComparedWithinTTL ==
    /\ ComparedGames => WithinTTL(games_cache, <<>>, GAMES_TTL)
    /\ ComparedOdds =>
         /\ WithinTTL(props_cache, LiveKey, ODDS_TTL)
         /\ WithinTTL(totals_cache, LiveKey, ODDS_TTL)

\* every entry of the three caches was retrieved from the provider at this
\* instant
AllRetrievedNow ==
    /\ \A e \in Entries(games_cache) : GamesRetrievedNow(e)
    /\ \A e \in Entries(props_cache) : PropsRetrievedNow(e)
    /\ \A e \in Entries(totals_cache) : TotalsRetrievedNow(e)

\* a run leaves in a cache what was there before or what it retrieved
\* from the provider
FilledFromUpstream ==
    /\ \A e \in Entries(games_cache') :
          e \in Entries(games_cache) \/ GamesRetrievedNow(e)
    /\ \A e \in Entries(props_cache') :
          e \in Entries(props_cache) \/ PropsRetrievedNow(e)
    /\ \A e \in Entries(totals_cache') :
          e \in Entries(totals_cache) \/ TotalsRetrievedNow(e)

\* C12: the comparison on the screen is the one of the cached event list,
\* props and totals, and in every script run (1) the entries a comparison is
\* made from are an event list cached less than 300 s ago and props and
\* totals cached less than 60 s ago, (2) every cache entry the run leaves
\* was there before the run or is the provider's answer retrieved during the
\* run, and (3) a run that handles "force refresh" leaves no entry cached
\* before it: the three caches are empty or hold what the run's own
\* comparison retrieved from the provider, so the next comparison is made
\* from retrieved data.
C12_CacheFreshness ==
    /\ []ComparedFromCaches
    /\ [][ now' = now /\ api' = api =>
             /\ ComparedWithinTTL'
             /\ FilledFromUpstream
             /\ screen'.toast => AllRetrievedNow' ]_vars

\* C12 witness: a snapshot was taken at the start, which cached the odds;
\* half an odds time-to-live later the operator forces a refresh with the
\* scan active, and the comparison shows rows made from odds retrieved at
\* that instant, which differ from the snapshot's.
C12_Witness ==
    /\ screen.toast
    /\ ComparedOdds
    /\ screen.rows # <<>>
    /\ screen.sidebar = Timestamp(0)
    /\ now = ODDS_TTL \div 2
    /\ PropsRetrievedNow(EntryOf(props_cache, LiveKey))
    /\ EntryOf(props_cache, LiveKey).value # PreData.props

(***************************************************************************)
(* Claims about the "take snapshot" action (C13 under SpecLive, C14 under  *)
(* Spec). A script run writes to the store only in the snapshot handler.   *)
(***************************************************************************)
\* the ids of the upcoming games of the provider's present event list
UpstreamKey == GameIds(filter_upcoming_games(api.games, HOURS_DEFAULT, now))

\* the props and totals the provider answers with at this instant
UpstreamData ==
    [props  |-> FetchAll(api.props, UpstreamKey),
     totals |-> FetchAll(api.totals, UpstreamKey)]

\* C13 (as claimed): a script run that writes to the snapshot store leaves
\* the store as a save of the props and totals the provider answers with
\* during that run leaves it; odds an earlier run cached, which the provider
\* has since replaced, are not written.
C13_SnapshotCapturesCurrentOdds ==
    [][ now' = now /\ api' = api /\ drive' # drive =>
          drive' = save_snapshot_to_drive(drive, UpstreamData, now,
                       CHOOSE f \in FoundFileIds(drive) : TRUE).folder ]_vars

\* the fetchers handed the run no upcoming game, or neither props nor
\* totals for the upcoming games
FetchedNothing ==
    \/ LiveKey = <<>>
    \/ /\ HasEntry(props_cache, LiveKey)
       /\ EntryOf(props_cache, LiveKey).value = <<>>
       /\ HasEntry(totals_cache, LiveKey)
       /\ EntryOf(totals_cache, LiveKey).value = <<>>

\* C14: a script run, that of the "take snapshot" action included, whose
\* fetchers return no upcoming game, or neither props nor totals for the
\* upcoming games, performs no save: it leaves every file of the Drive
\* folder as it was.
C14_EmptyFetchKeepsSnapshot ==
    [][ now' = now /\ api' = api /\ FetchedNothing' => drive' = drive ]_vars

\* C14 witness: a snapshot file is in the store, and the snapshot handler
\* (no comparison ran in this session) found an upcoming game for which both
\* odds requests returned nothing.
C14_Witness ==
    /\ SnapshotFileIds(drive) # {}
    /\ ~scan_active
    /\ LiveKey # <<>>
    /\ HasEntry(props_cache, LiveKey)
    /\ EntryOf(props_cache, LiveKey).value = <<>>
    /\ HasEntry(totals_cache, LiveKey)
    /\ EntryOf(totals_cache, LiveKey).value = <<>>

====
